---- MODULE Spec2Model ----
(***************************************************************************)
(* A model of fetch_plant_taxonomy.py: rank-conflict validation, name      *)
(* resolution with retries, descendant expansion over paginated children   *)
(* listings, and the sequential / pooled pipeline that writes rows and     *)
(* counts successes and failures under one lock.                           *)
(*                                                                         *)
(* A thread is the main thread (0, which runs the tasks itself in          *)
(* sequential mode) or a pool worker (1..max_workers).  A thread takes one *)
(* step per network request, per pause (time.sleep) and per statement of   *)
(* the locked section; the computation between two such points touches     *)
(* only the thread's own data and is folded into the step that precedes it.*)
(***************************************************************************)
EXTENDS Integers, Sequences, FiniteSets, Bags, TLC

(* ------------------------------ bounds -------------------------------- *)

\* Longest list of input names.
MaxNames == 2
\* os.cpu_count() of the machine the run is on.
CpuCount == 2
\* Longest -out-level list of the broad validation runs.
MaxLevels == 2

(* ------------------------- program constants -------------------------- *)

RETRY_LIMIT == 5
\* 1.5 s, counted in half seconds.
DEFAULT_REQUEST_DELAY == 3
\* fetch_children's page size (limit).
PageLimit == 1000
\* The pool's cap on workers.
PoolCap == 10

None == "None"
NA == "N/A"

taxonomic_ranks == <<"kingdom", "phylum", "class", "order", "family", "genus", "species">>

Ranks == {taxonomic_ranks[i] : i \in DOMAIN taxonomic_ranks}

\* list.index: the 0-based position of the first occurrence.
RankIndex(r) == (CHOOSE i \in DOMAIN taxonomic_ranks : taxonomic_ranks[i] = r) - 1

(* ------------------------- python containers -------------------------- *)

Range(s) == {s[i] : i \in DOMAIN s}

EmptyDict == [k \in {} |-> ""]

\* dict.get(k, default)
Get(d, k, default) == IF k \in DOMAIN d THEN d[k] ELSE default

\* d[k] = v
Put(d, k, v) == [x \in (DOMAIN d) \cup {k} |-> IF x = k THEN v ELSE d[x]]

\* ListRemove as list.pop(): drops the last element, whatever x is.
ListRemoveLast(s, x) == SubSeq(s, 1, Len(s) - 1)

\* list.remove(x): drops the first occurrence of x.
ListRemove(s, x) ==
    LET i == CHOOSE j \in DOMAIN s : s[j] = x /\ \A k \in 1..(j - 1) : s[k] # x
    IN  SubSeq(s, 1, i - 1) \o SubSeq(s, i + 1, Len(s))

\* str.lower() on the rank labels the service and the program use.
Lower(s) ==
    CASE s = "KINGDOM" -> "kingdom"
      [] s = "PHYLUM" -> "phylum"
      [] s = "CLASS" -> "class"
      [] s = "ORDER" -> "order"
      [] s = "FAMILY" -> "family"
      [] s = "SUBFAMILY" -> "subfamily"
      [] s = "GENUS" -> "genus"
      [] s = "Genus" -> "genus"
      [] s = "SPECIES" -> "species"
      [] OTHER -> s

Min(a, b) == IF a < b THEN a ELSE b

\* The multiset of the elements of a sequence.
BagOf(s) == [x \in Range(s) |-> Cardinality({i \in DOMAIN s : s[i] = x})]

(* --------------------------- remote service --------------------------- *)
(* The service is a collaborator: what follows is the world the runs are   *)
(* checked against, a small part of the GBIF backbone.                     *)

Names == {"Rosaceae", "Nomen", "Down"}

\* The JSON body of /species/match for a name, when the service answers.
MatchBody(name) ==
    CASE name = "Rosaceae" ->
           [matchType |-> "EXACT", usageKey |-> "6634", rank |-> "FAMILY",
            kingdom |-> "Plantae", phylum |-> "Tracheophyta",
            class |-> "Magnoliopsida", order |-> "Rosales", family |-> "Rosaceae"]
      [] OTHER -> [matchType |-> "NONE"]

\* What /species/match does for a name on a service whose answer depends
\* only on the request: "Down" always times out.
StableMatch(name) ==
    IF name = "Down" THEN [kind |-> "etimeout", body |-> EmptyDict]
    ELSE [kind |-> "ok", body |-> MatchBody(name)]

Failures == {"e429", "ehttp", "etimeout", "ereq"}

\* Every answer a /species/match request can get on a faulty service: the
\* body, a body that matched but carries no usageKey, a no-match, an error.
FaultyMatch(name) ==
    {[kind |-> "ok", body |-> MatchBody(name)],
     [kind |-> "ok", body |-> [matchType |-> "FUZZY", family |-> "Rosaceae"]],
     [kind |-> "ok", body |-> [matchType |-> "NONE"]]}
    \cup {[kind |-> k, body |-> EmptyDict] : k \in Failures}

Child(key, sciname, rank) == [key |-> key, scientificName |-> sciname, rank |-> rank]

\* The full children listing of a taxon.  Rosaceae has one child more than a
\* page holds: a genus first, a genus last, and subfamilies between them.
Listing(key) ==
    CASE key = "6634" ->
           [i \in 1..(PageLimit + 1) |->
              IF i = 1 THEN Child("8395064", "Rosa L.", "GENUS")
              ELSE IF i = PageLimit + 1 THEN Child("2988638", "Rubus L.", "Genus")
              ELSE Child("4913", "Amygdaloideae", "SUBFAMILY")]
      [] key = "8395064" -> <<Child("3003979", "Rosa canina L.", "SPECIES")>>
      [] OTHER -> <<>>

\* The taxa of the service's world.
KnownKeys == {"6634", "8395064", "2988638", "3003979", "4913"}

\* The "results" of /species/{key}/children?limit=&offset=
Page(key, offset, limit) ==
    LET all == Listing(key)
    IN  SubSeq(all, offset + 1, Min(offset + limit, Len(all)))

\* On the stable service every children listing is served.
StableChildren(key, offset, limit) ==
    [kind |-> "ok", body |-> [results |-> Page(key, offset, limit)]]

FaultyChildren(key, offset, limit) ==
    {[kind |-> "ok", body |-> [results |-> Page(key, offset, limit)]]}
    \cup {[kind |-> k, body |-> EmptyDict] : k \in Failures}

(* ------------------------------- state -------------------------------- *)

VARIABLES
    args,           \* the parsed command line: in_level, out_level, parallel
    plant_names,    \* the non-blank lines of the input file
    service,        \* "stable": answers depend only on the request; "faulty": any
    mainpc,         \* where the main thread is in main / process_plant_file
    input_level,    \* main's input_level
    levels,         \* main's levels list (check_conflict edits it in place)
    queue,          \* indices into plant_names not yet taken by a thread
    th,             \* per thread: position and locals of process_and_write
    lock,           \* the thread inside "with lock", or NoThread
    success_count,
    failure_count,
    sink,           \* the lines appended to the output file, with their task
    network_used,   \* has this invocation issued a network request?
    prior           \* the outcome of the earlier, sequential invocation

vars == <<args, plant_names, service, mainpc, input_level, levels, queue, th,
          lock, success_count, failure_count, sink, network_used, prior>>

RANK_ABBREVIATIONS ==
    [k |-> "kingdom", p |-> "phylum", c |-> "class", o |-> "order",
     f |-> "family", g |-> "genus", s |-> "species"]

max_workers == Min(PoolCap, CpuCount)

MainThread == 0
Workers == 1..max_workers
Threads == {MainThread} \cup Workers
NoThread == -1

request_delay == DEFAULT_REQUEST_DELAY

(* ----------------------------- validation ----------------------------- *)

\* check_conflict without the test for a sole output level: the conflicting
\* level is always removed and the run goes on.
check_conflict_no_exit(in_level, lvls) ==
    IF in_level \in Range(lvls)
    THEN [exit |-> FALSE, out |-> ListRemove(lvls, in_level)]
    ELSE [exit |-> FALSE, out |-> lvls]

\* check_conflict: exit is sys.exit(1); otherwise out is the list afterwards.
check_conflict(in_level, lvls) ==
    IF in_level \in Range(lvls)
    THEN IF Len(lvls) = 1
         THEN [exit |-> TRUE, out |-> lvls]
         ELSE [exit |-> FALSE, out |-> ListRemove(lvls, in_level)]
    ELSE [exit |-> FALSE, out |-> lvls]

(* ----------------------------- resolution ----------------------------- *)

fill_empty_taxonomy(plant_name) ==
    [key |-> None, name |-> plant_name, kingdom |-> NA, phylum |-> NA,
     class |-> NA, order |-> NA, family |-> NA, genus |-> NA, species |-> NA,
     rank |-> NA]

\* The dict fetch_taxonomy builds from a body whose matchType is not NONE.
MatchedTaxonomy(plant_name, body) ==
    [key |-> Get(body, "usageKey", None), name |-> plant_name,
     kingdom |-> Get(body, "kingdom", NA), phylum |-> Get(body, "phylum", NA),
     class |-> Get(body, "class", NA), order |-> Get(body, "order", NA),
     family |-> Get(body, "family", NA), genus |-> Get(body, "genus", NA),
     species |-> Get(body, "species", NA), rank |-> Get(body, "rank", NA)]

\* One entry of a call's trace: a request with its outcome, its offset and the
\* body of a match, or a pause with its reason and length.
Request(what, n, body) == [ev |-> "request", what |-> what, n |-> n, body |-> body]

\* How a trace names a failed request: a 429, or any other failure.
Outcome(kind) == IF kind = "e429" THEN "ratelimit" ELSE "failure"
Sleep(what, n) == [ev |-> "sleep", what |-> what, n |-> n, body |-> EmptyDict]

NoFrame == [key |-> None, data |-> EmptyDict, idx |-> 0]

\* What a thread remembers of the call that has just returned, until its next
\* request or pause or the end of its task: the call's trace and what it returned.
NoLast ==
    [fn |-> "", trace |-> <<>>, taxonomy |-> EmptyDict, children |-> <<>>,
     key |-> None, rank |-> ""]

Returned(fn, trace, taxonomy, children, key, rank) ==
    [fn |-> fn, trace |-> trace, taxonomy |-> taxonomy, children |-> children,
     key |-> key, rank |-> rank]

\* A thread with no task.
Idle ==
    [pc |-> "idle", task |-> 0, name |-> "", attempt |-> 0, offset |-> 0,
     taxonomy |-> EmptyDict, lower |-> <<>>, cur |-> NoFrame, children |-> <<>>,
     stack |-> <<>>, results |-> <<>>, success |-> FALSE, tmp |-> 0, wrote |-> 0,
     trace |-> <<>>, last |-> NoLast, calls |-> <<>>]

(* ----------------------------- expansion ------------------------------ *)

\* data[level] = taxonomy.get(level, "N/A") for each level of a list, in order.
RECURSIVE CopyHigher(_, _, _)
CopyHigher(data, taxonomy, higher) ==
    IF higher = <<>> THEN data
    ELSE CopyHigher(Put(data, Head(higher), Get(taxonomy, Head(higher), NA)),
                    taxonomy, Tail(higher))

\* Descend with the test "next_rank in lower_levels" left out: the children
\* are listed at every rank step.
RECURSIVE DescendEveryRank(_)
DescendEveryRank(s) ==
    IF s.stack = <<>>
    THEN [s EXCEPT !.pc = "lock_wait"]
    ELSE LET f == Head(s.stack)
             next_rank_index == f.idx + 1
         IN  IF f.idx >= Len(taxonomic_ranks) - 1
             THEN DescendEveryRank([s EXCEPT !.results = Append(@, f.data),
                                             !.stack = Tail(@)])
             ELSE [s EXCEPT !.pc = "fc_request", !.cur = f,
                            !.calls = Append(@, <<f.key, taxonomic_ranks[next_rank_index + 1]>>),
                            !.stack = Tail(@), !.children = <<>>,
                            !.offset = 0, !.attempt = 0]

\* fetch_lower_levels, as a stack of (taxon key, row, rank index) frames in
\* depth-first order, run up to its next fetch_children call or to its end.
RECURSIVE Descend(_)
Descend(s) ==
    IF s.stack = <<>>
    THEN [s EXCEPT !.pc = "lock_wait"]
    ELSE LET f == Head(s.stack)
             next_rank_index == f.idx + 1
         IN  IF f.idx >= Len(taxonomic_ranks) - 1
             THEN Descend([s EXCEPT !.results = Append(@, f.data),
                                    !.stack = Tail(@)])
             ELSE IF taxonomic_ranks[next_rank_index + 1] \in Range(s.lower)
                  THEN [s EXCEPT !.pc = "fc_request", !.cur = f,
                                 !.calls = Append(@, <<f.key, taxonomic_ranks[next_rank_index + 1]>>),
                                 !.stack = Tail(@), !.children = <<>>,
                                 !.offset = 0, !.attempt = 0]
                  ELSE Descend([s EXCEPT
                           !.stack = <<[f EXCEPT !.idx = next_rank_index]>> \o Tail(@)])

\* UnresolvedRow with the requested fields set to the empty taxonomy's 'N/A'.
UnresolvedRowNA(plant_name) ==
    Put([l \in Range(levels) |-> NA], input_level, plant_name)

\* The one row of a name that did not resolve.
UnresolvedRow(plant_name) ==
    Put([l \in Range(levels) |-> ""], input_level, plant_name)

\* process_plant from the return of fetch_taxonomy on.
AfterResolve(s0, taxonomy) ==
    LET s == [s0 EXCEPT !.trace = <<>>,
                        !.last = Returned("fetch_taxonomy", s0.trace, taxonomy, <<>>, None, "")]
    IN
    IF taxonomy["key"] = None
    THEN [s EXCEPT !.taxonomy = taxonomy, !.attempt = 0,
                   !.results = <<UnresolvedRow(s.name)>>,
                   !.success = FALSE,
                   !.pc = "lock_wait"]
    ELSE LET input_rank_index == RankIndex(input_level)
             lower_levels == SelectSeq(levels, LAMBDA l : RankIndex(l) > input_rank_index)
             higher_levels == SelectSeq(levels, LAMBDA l : RankIndex(l) <= input_rank_index)
             data == CopyHigher([l \in {input_level} |-> s.name], taxonomy, higher_levels)
         IN  IF lower_levels # <<>>
             THEN Descend([s EXCEPT !.taxonomy = taxonomy, !.success = TRUE,
                                    !.attempt = 0, !.lower = lower_levels,
                                    !.stack = <<[key |-> taxonomy["key"], data |-> data,
                                                 idx |-> input_rank_index]>>])
             ELSE [s EXCEPT !.taxonomy = taxonomy, !.success = TRUE, !.attempt = 0,
                            !.results = <<data>>, !.pc = "lock_wait"]

\* AfterChildren with an empty listing treated like a rank that was not
\* requested: no row is emitted, the descent goes on to the next rank with the
\* same taxon.
AfterChildrenSkipEmpty(s) ==
    LET next_rank_index == s.cur.idx + 1
        next_rank == taxonomic_ranks[next_rank_index + 1]
        frames == [i \in 1..Len(s.children) |->
                     [key |-> s.children[i]["key"],
                      data |-> Put(s.cur.data, next_rank, s.children[i]["name"]),
                      idx |-> next_rank_index]]
        back == [s EXCEPT !.children = <<>>, !.cur = NoFrame, !.offset = 0, !.attempt = 0,
                          !.trace = <<>>,
                          !.last = Returned("fetch_children", s.trace, EmptyDict,
                                            s.children, s.cur.key, next_rank)]
    IN  IF s.children = <<>>
        THEN Descend([back EXCEPT !.stack = <<[s.cur EXCEPT !.idx = next_rank_index]>> \o @])
        ELSE Descend([back EXCEPT !.stack = frames \o @])

\* fetch_lower_levels from the return of fetch_children on.
AfterChildren(s) ==
    LET next_rank_index == s.cur.idx + 1
        next_rank == taxonomic_ranks[next_rank_index + 1]
        frames == [i \in 1..Len(s.children) |->
                     [key |-> s.children[i]["key"],
                      data |-> Put(s.cur.data, next_rank, s.children[i]["name"]),
                      idx |-> next_rank_index]]
        \* the locals of the fetch_children call that returned are gone
        back == [s EXCEPT !.children = <<>>, !.cur = NoFrame, !.offset = 0, !.attempt = 0,
                          !.trace = <<>>,
                          !.last = Returned("fetch_children", s.trace, EmptyDict,
                                            s.children, s.cur.key, next_rank)]
    IN  IF s.children = <<>>
        THEN Descend([back EXCEPT !.results = Append(@, s.cur.data)])
        ELSE Descend([back EXCEPT !.stack = frames \o @])

\* The entry fetch_children keeps of a child.
ChildEntry(child) ==
    [key |-> Get(child, "key", None), name |-> Get(child, "scientificName", NA),
     rank |-> Get(child, "rank", NA), genus |-> Get(child, "genus", NA),
     species |-> Get(child, "species", NA)]

\* page_results: the children of a page whose rank is the wanted one.
PageResults(page, rank) ==
    LET hits == SelectSeq(page, LAMBDA c : Lower(Get(c, "rank", "")) = Lower(rank))
    IN  [i \in 1..Len(hits) |-> ChildEntry(hits[i])]

\* The entries of every rank in every full listing, worked out once.
AllChildrenTable ==
    [k \in KnownKeys, r \in Ranks |-> PageResults(Listing(k), r)]

\* What fetch_children returns for a taxon and a rank when every page is served.
AllChildren(key, rank) ==
    IF key \in KnownKeys /\ rank \in Ranks THEN AllChildrenTable[key, rank]
    ELSE PageResults(Listing(key), rank)

\* The concatenation of a list of lists.
RECURSIVE Flatten(_)
Flatten(ss) == IF ss = <<>> THEN <<>> ELSE Head(ss) \o Flatten(Tail(ss))

\* fetch_lower_levels as the source writes it, a recursion over the rank steps,
\* with every children listing served in full: the rows it appends, in order.
RECURSIVE fetch_lower_levels(_, _, _, _)
fetch_lower_levels(current_key, current_data, current_rank_index, lower_levels) ==
    IF current_rank_index >= Len(taxonomic_ranks) - 1
    THEN <<current_data>>
    ELSE LET next_rank_index == current_rank_index + 1
             next_rank == taxonomic_ranks[next_rank_index + 1]
         IN  IF next_rank \in Range(lower_levels)
             THEN LET children == AllChildren(current_key, next_rank)
                  IN  IF children = <<>>
                      THEN <<current_data>>
                      ELSE Flatten([i \in 1..Len(children) |->
                               fetch_lower_levels(children[i]["key"],
                                   Put(current_data, next_rank, children[i]["name"]),
                                   next_rank_index, lower_levels)])
             ELSE fetch_lower_levels(current_key, current_data, next_rank_index,
                                     lower_levels)

\* The rank a thread's fetch_children call is for.
WantedRank(s) == taxonomic_ranks[s.cur.idx + 2]

(* ------------------------------ answers ------------------------------- *)

MatchAnswers(name) ==
    IF service = "stable" THEN {StableMatch(name)} ELSE FaultyMatch(name)

ChildrenAnswers(key, offset, limit) ==
    IF service = "stable" THEN {StableChildren(key, offset, limit)}
    ELSE FaultyChildren(key, offset, limit)

(* -------------------------- fetch_taxonomy ---------------------------- *)

\* FtAnswer with a no-match handled like a failed request: counted and retried.
FtAnswerRetryNone(s, ans) ==
    IF ans.kind = "ok"
    THEN IF Get(ans.body, "matchType", None) # "NONE"
         THEN AfterResolve([s EXCEPT !.trace = Append(@, Request("match", 0, ans.body))],
                           MatchedTaxonomy(s.name, ans.body))
         ELSE [s EXCEPT !.trace = Append(@, Request("none", 0, ans.body)),
                        !.attempt = @ + 1, !.pc = "ft_sleep"]
    ELSE IF ans.kind = "e429"
         THEN [s EXCEPT !.trace = Append(@, Request(Outcome(ans.kind), 0, EmptyDict)),
                        !.pc = "ft_backoff"]
         ELSE [s EXCEPT !.trace = Append(@, Request(Outcome(ans.kind), 0, EmptyDict)),
                        !.attempt = @ + 1, !.pc = "ft_sleep"]

\* The thread after one requests.get of fetch_taxonomy got answer ans.
FtAnswer(s, ans) ==
    IF ans.kind = "ok"
    THEN IF Get(ans.body, "matchType", None) # "NONE"
         THEN AfterResolve([s EXCEPT !.trace = Append(@, Request("match", 0, ans.body))],
                           MatchedTaxonomy(s.name, ans.body))
         ELSE AfterResolve([s EXCEPT !.trace = Append(@, Request("none", 0, ans.body))],
                           fill_empty_taxonomy(s.name))
    ELSE IF ans.kind = "e429"
         THEN [s EXCEPT !.trace = Append(@, Request(Outcome(ans.kind), 0, EmptyDict)),
                        !.pc = "ft_backoff"]
         ELSE [s EXCEPT !.trace = Append(@, Request(Outcome(ans.kind), 0, EmptyDict)),
                        !.attempt = @ + 1, !.pc = "ft_sleep"]

\* FtBackoffStep with the multiplier one short: time.sleep(request_delay * attempt).
FtBackoffStepOneShort(s) ==
    [s EXCEPT !.trace = Append(@, Sleep("backoff", request_delay * s.attempt)),
              !.attempt = @ + 1, !.pc = "ft_sleep"]

\* time.sleep(request_delay * (attempt + 1)); attempt += 1
FtBackoffStep(s) ==
    [s EXCEPT !.trace = Append(@, Sleep("backoff", request_delay * (s.attempt + 1))),
              !.attempt = @ + 1, !.pc = "ft_sleep"]

\* FtSleepStep with the loop test off by one: while attempt <= RETRY_LIMIT.
FtSleepStepOneMore(s) ==
    LET t == [s EXCEPT !.trace = Append(@, Sleep("retry", request_delay))]
    IN  IF t.attempt <= RETRY_LIMIT
        THEN [t EXCEPT !.pc = "ft_request"]
        ELSE AfterResolve(t, fill_empty_taxonomy(t.name))

\* time.sleep(request_delay), then the loop test; after the loop the empty taxonomy.
FtSleepStep(s) ==
    LET t == [s EXCEPT !.trace = Append(@, Sleep("retry", request_delay))]
    IN  IF t.attempt < RETRY_LIMIT
        THEN [t EXCEPT !.pc = "ft_request"]
        ELSE AfterResolve(t, fill_empty_taxonomy(t.name))

(* -------------------------- fetch_children ---------------------------- *)

\* FcCheck with the results given up along with the call: after RETRY_LIMIT
\* failed requests the empty list is returned.
FcCheckDropPartial(s) ==
    IF s.attempt >= RETRY_LIMIT THEN AfterChildren([s EXCEPT !.children = <<>>])
    ELSE [s EXCEPT !.pc = "fc_sleep"]

\* if attempt >= RETRY_LIMIT: break (and return results), else on to the pause.
FcCheck(s) ==
    IF s.attempt >= RETRY_LIMIT THEN AfterChildren(s) ELSE [s EXCEPT !.pc = "fc_sleep"]

\* FcAnswer with the last-page test made on the entries kept after the rank
\* filter: if len(page_results) < limit.
FcAnswerCountFiltered(s, ans) ==
    IF ans.kind = "ok"
    THEN LET page == Get(ans.body, "results", <<>>)
             t == [s EXCEPT !.trace = Append(@, Request("page", s.offset, EmptyDict)),
                            !.children = @ \o PageResults(page, WantedRank(s))]
         IN  IF Len(PageResults(page, WantedRank(s))) < PageLimit
             THEN AfterChildren(t)
             ELSE [t EXCEPT !.offset = @ + PageLimit, !.pc = "fc_pagesleep"]
    ELSE IF ans.kind = "e429"
         THEN [s EXCEPT !.trace = Append(@, Request(Outcome(ans.kind), s.offset, EmptyDict)),
                        !.pc = "fc_backoff"]
         ELSE FcCheck([s EXCEPT !.trace = Append(@, Request(Outcome(ans.kind), s.offset, EmptyDict)),
                                !.attempt = @ + 1])

\* FcAnswer with the retry counter started afresh for every page: attempt = 0
\* after a page was fetched.
FcAnswerResetAttempt(s, ans) ==
    IF ans.kind = "ok"
    THEN LET page == Get(ans.body, "results", <<>>)
             t == [s EXCEPT !.trace = Append(@, Request("page", s.offset, EmptyDict)),
                            !.children = @ \o PageResults(page, WantedRank(s)),
                            !.attempt = 0]
         IN  IF Len(page) < PageLimit
             THEN AfterChildren(t)
             ELSE [t EXCEPT !.offset = @ + PageLimit, !.pc = "fc_pagesleep"]
    ELSE IF ans.kind = "e429"
         THEN [s EXCEPT !.trace = Append(@, Request(Outcome(ans.kind), s.offset, EmptyDict)),
                        !.pc = "fc_backoff"]
         ELSE FcCheck([s EXCEPT !.trace = Append(@, Request(Outcome(ans.kind), s.offset, EmptyDict)),
                                !.attempt = @ + 1])

\* The thread after one requests.get of fetch_children got answer ans.
FcAnswer(s, ans) ==
    IF ans.kind = "ok"
    THEN LET page == Get(ans.body, "results", <<>>)
             t == [s EXCEPT !.trace = Append(@, Request("page", s.offset, EmptyDict)),
                            !.children = @ \o PageResults(page, WantedRank(s))]
         IN  IF Len(page) < PageLimit
             THEN AfterChildren(t)
             ELSE [t EXCEPT !.offset = @ + PageLimit, !.pc = "fc_pagesleep"]
    ELSE IF ans.kind = "e429"
         THEN [s EXCEPT !.trace = Append(@, Request(Outcome(ans.kind), s.offset, EmptyDict)),
                        !.pc = "fc_backoff"]
         ELSE FcCheck([s EXCEPT !.trace = Append(@, Request(Outcome(ans.kind), s.offset, EmptyDict)),
                                !.attempt = @ + 1])

\* time.sleep(request_delay * (attempt + 1)); attempt += 1; then the limit test.
FcBackoffStep(s) ==
    FcCheck([s EXCEPT !.trace = Append(@, Sleep("backoff", request_delay * (s.attempt + 1))),
                      !.attempt = @ + 1])

\* The time.sleep(request_delay) after a full page, then the limit test.
FcPageSleepStep(s) ==
    FcCheck([s EXCEPT !.trace = Append(@, Sleep("page", request_delay))])

\* The time.sleep(request_delay) that ends an iteration of the loop.
FcSleepStep(s) ==
    [s EXCEPT !.trace = Append(@, Sleep("retry", request_delay)), !.pc = "fc_request"]

(* ------------------------- process_and_write -------------------------- *)

\* The line written for a row: its values for [input_level] + levels.
RowLine(data) ==
    LET cols == <<input_level>> \o levels
    IN  [i \in 1..Len(cols) |-> Get(data, cols[i], "")]

\* A thread at a request or a pause: the call that returned before is forgotten.
Fresh(s) == [s EXCEPT !.last = NoLast]

\* LockFree with the counters and the file left unguarded: anyone may enter.
LockFreeAlways(t) == TRUE

\* May thread t enter "with lock"?
LockFree(t) == lock = NoThread

\* The threads that run tasks: the pool's workers, or the main thread itself.
Runners == IF args.parallel THEN Workers ELSE {MainThread}

\* The state of a thread that ends a task.
AfterTask(t) == IF t = MainThread THEN [Idle EXCEPT !.pc = "seq_sleep"] ELSE Idle

(* ------------------------------ actions ------------------------------- *)

\* main: check_conflict, then process_plant_file up to the dispatch, or sys.exit(1).
Validate ==
    /\ mainpc = "check"
    /\ LET r == check_conflict(input_level, levels)
       IN  /\ mainpc' = IF r.exit THEN "exit" ELSE "dispatch"
           /\ levels' = r.out
    /\ UNCHANGED <<args, plant_names, service, input_level, queue, th, lock,
                   success_count, failure_count, sink, network_used, prior>>

\* process_plant_file: the names are handed out, one submit per name to the
\* pool or one loop iteration each.
Dispatch ==
    /\ mainpc = "dispatch"
    /\ queue' = [i \in 1..Len(plant_names) |-> i]
    /\ mainpc' = "run"
    /\ UNCHANGED <<args, plant_names, service, input_level, levels, th, lock,
                   success_count, failure_count, sink, network_used, prior>>

\* A free thread starts process_and_write on the next name.
TakeTask(t) ==
    /\ mainpc = "run"
    /\ t \in Runners
    /\ th[t].pc = "idle"
    /\ queue # <<>>
    /\ th' = [th EXCEPT ![t] = [Idle EXCEPT !.pc = "ft_request", !.task = Head(queue),
                                            !.name = plant_names[Head(queue)]]]
    /\ queue' = Tail(queue)
    /\ UNCHANGED <<args, plant_names, service, mainpc, input_level, levels, lock,
                   success_count, failure_count, sink, network_used, prior>>

\* fetch_taxonomy: requests.get and what follows up to the next blocking point.
FtRequest(t) ==
    /\ th[t].pc = "ft_request"
    /\ \E ans \in MatchAnswers(th[t].name) :
           th' = [th EXCEPT ![t] = FtAnswer(Fresh(th[t]), ans)]
    /\ network_used' = TRUE
    /\ UNCHANGED <<args, plant_names, service, mainpc, input_level, levels, queue,
                   lock, success_count, failure_count, sink, prior>>

FtBackoff(t) ==
    /\ th[t].pc = "ft_backoff"
    /\ th' = [th EXCEPT ![t] = FtBackoffStep(Fresh(th[t]))]
    /\ UNCHANGED <<args, plant_names, service, mainpc, input_level, levels, queue,
                   lock, success_count, failure_count, sink, network_used, prior>>

FtSleep(t) ==
    /\ th[t].pc = "ft_sleep"
    /\ th' = [th EXCEPT ![t] = FtSleepStep(Fresh(th[t]))]
    /\ UNCHANGED <<args, plant_names, service, mainpc, input_level, levels, queue,
                   lock, success_count, failure_count, sink, network_used, prior>>

\* fetch_children: requests.get and what follows up to the next blocking point.
FcRequest(t) ==
    /\ th[t].pc = "fc_request"
    /\ \E ans \in ChildrenAnswers(th[t].cur.key, th[t].offset, PageLimit) :
           th' = [th EXCEPT ![t] = FcAnswer(Fresh(th[t]), ans)]
    /\ network_used' = TRUE
    /\ UNCHANGED <<args, plant_names, service, mainpc, input_level, levels, queue,
                   lock, success_count, failure_count, sink, prior>>

FcBackoff(t) ==
    /\ th[t].pc = "fc_backoff"
    /\ th' = [th EXCEPT ![t] = FcBackoffStep(Fresh(th[t]))]
    /\ UNCHANGED <<args, plant_names, service, mainpc, input_level, levels, queue,
                   lock, success_count, failure_count, sink, network_used, prior>>

FcPageSleep(t) ==
    /\ th[t].pc = "fc_pagesleep"
    /\ th' = [th EXCEPT ![t] = FcPageSleepStep(Fresh(th[t]))]
    /\ UNCHANGED <<args, plant_names, service, mainpc, input_level, levels, queue,
                   lock, success_count, failure_count, sink, network_used, prior>>

FcSleep(t) ==
    /\ th[t].pc = "fc_sleep"
    /\ th' = [th EXCEPT ![t] = FcSleepStep(Fresh(th[t]))]
    /\ UNCHANGED <<args, plant_names, service, mainpc, input_level, levels, queue,
                   lock, success_count, failure_count, sink, network_used, prior>>

\* Acquire with the lock taken around the whole of process_and_write: on the
\* way into process_plant, and held until the rows are written.
AcquireAroundTask(t) ==
    /\ \/ /\ th[t].pc = "ft_request"
          /\ th[t].trace = <<>>
          /\ lock = NoThread
          /\ th' = th
       \/ /\ th[t].pc = "lock_wait"
          /\ lock = t
          /\ th' = [th EXCEPT ![t].pc = "count_load"]
    /\ lock' = t
    /\ UNCHANGED <<args, plant_names, service, mainpc, input_level, levels, queue,
                   success_count, failure_count, sink, network_used, prior>>

\* with lock: (enter)
Acquire(t) ==
    /\ th[t].pc = "lock_wait"
    /\ LockFree(t)
    /\ lock' = t
    /\ th' = [th EXCEPT ![t].pc = "count_load"]
    /\ UNCHANGED <<args, plant_names, service, mainpc, input_level, levels, queue,
                   success_count, failure_count, sink, network_used, prior>>

\* CountLoad with the two counters confused: a success reads (and then
\* overwrites success_count with) the failure count plus one, and the reverse.
CountLoadOther(t) ==
    /\ th[t].pc = "count_load"
    /\ th' = [th EXCEPT ![t].tmp = IF th[t].success THEN failure_count ELSE success_count,
                        ![t].pc = "count_store"]
    /\ UNCHANGED <<args, plant_names, service, mainpc, input_level, levels, queue,
                   lock, success_count, failure_count, sink, network_used, prior>>

\* success_count += 1 or failure_count += 1: the read of the counter ...
CountLoad(t) ==
    /\ th[t].pc = "count_load"
    /\ th' = [th EXCEPT ![t].tmp = IF th[t].success THEN success_count ELSE failure_count,
                        ![t].pc = "count_store"]
    /\ UNCHANGED <<args, plant_names, service, mainpc, input_level, levels, queue,
                   lock, success_count, failure_count, sink, network_used, prior>>

\* CountStore with the lock covering the counters only: it is released before
\* the rows are written.
CountStoreThenRelease(t) ==
    /\ th[t].pc = "count_store"
    /\ success_count' = IF th[t].success THEN th[t].tmp + 1 ELSE success_count
    /\ failure_count' = IF th[t].success THEN failure_count ELSE th[t].tmp + 1
    /\ th' = [th EXCEPT ![t].pc = "write"]
    /\ lock' = NoThread
    /\ UNCHANGED <<args, plant_names, service, mainpc, input_level, levels, queue,
                   sink, network_used, prior>>

\* ... and the store of the sum.
CountStore(t) ==
    /\ th[t].pc = "count_store"
    /\ success_count' = IF th[t].success THEN th[t].tmp + 1 ELSE success_count
    /\ failure_count' = IF th[t].success THEN failure_count ELSE th[t].tmp + 1
    /\ th' = [th EXCEPT ![t].pc = "write"]
    /\ UNCHANGED <<args, plant_names, service, mainpc, input_level, levels, queue,
                   lock, sink, network_used, prior>>

\* One turn of "for data in results": a row is appended to the output file.
\* The file system is a collaborator and is taken not to fail, so the except
\* clause around the writes is never entered; the sink keeps the row's dict (what
\* the json format writes) and its line of values (what csv and txt write).
WriteRow(t) ==
    /\ th[t].pc = "write"
    /\ th[t].wrote < Len(th[t].results)
    /\ LET data == th[t].results[th[t].wrote + 1]
       IN  sink' = Append(sink, [task |-> th[t].task, data |-> data, line |-> RowLine(data)])
    /\ th' = [th EXCEPT ![t].wrote = @ + 1]
    /\ UNCHANGED <<args, plant_names, service, mainpc, input_level, levels, queue,
                   lock, success_count, failure_count, network_used, prior>>

\* Release with the lock never given back: process_and_write returns with the
\* lock still held.
ReleaseKeepsLock(t) ==
    /\ th[t].pc = "write"
    /\ th[t].wrote = Len(th[t].results)
    /\ th' = [th EXCEPT ![t] = AfterTask(t)]
    /\ UNCHANGED <<args, plant_names, service, mainpc, input_level, levels, queue,
                   lock, success_count, failure_count, sink, network_used, prior>>

\* with lock: (leave); process_and_write returns.
Release(t) ==
    /\ th[t].pc = "write"
    /\ th[t].wrote = Len(th[t].results)
    /\ lock' = IF lock = t THEN NoThread ELSE lock
    /\ th' = [th EXCEPT ![t] = AfterTask(t)]
    /\ UNCHANGED <<args, plant_names, service, mainpc, input_level, levels, queue,
                   success_count, failure_count, sink, network_used, prior>>

\* Sequential mode: time.sleep(request_delay) after each name.
SeqSleep ==
    /\ th[MainThread].pc = "seq_sleep"
    /\ th' = [th EXCEPT ![MainThread] = Idle]
    /\ UNCHANGED <<args, plant_names, service, mainpc, input_level, levels, queue,
                   lock, success_count, failure_count, sink, network_used, prior>>

\* Every name is done (the loop ended, or the pool was joined): the summary.
Finish ==
    /\ mainpc = "run"
    /\ queue = <<>>
    /\ \A t \in Threads : th[t].pc = "idle"
    /\ mainpc' = "done"
    /\ UNCHANGED <<args, plant_names, service, input_level, levels, queue, th, lock,
                   success_count, failure_count, sink, network_used, prior>>

NoPrior == [present |-> FALSE, exit |-> FALSE, rows |-> EmptyBag, success |-> 0, failure |-> 0]

\* The state in which main has parsed a command line and read the input file.
Started(a, names, svc, before) ==
    /\ args = a
    /\ plant_names = names
    /\ service = svc
    /\ mainpc = "check"
    /\ input_level = RANK_ABBREVIATIONS[a.in_level]
    /\ levels = [i \in 1..Len(a.out_level) |-> RANK_ABBREVIATIONS[a.out_level[i]]]
    /\ queue = <<>>
    /\ th = [t \in Threads |-> Idle]
    /\ lock = NoThread
    /\ success_count = 0
    /\ failure_count = 0
    /\ sink = <<>>
    /\ network_used = FALSE
    /\ prior = before

\* The same command line with -parallel, on the same input and a fresh output
\* file, after the sequential invocation ended.
InvokePooled ==
    /\ mainpc \in {"done", "exit"}
    /\ ~args.parallel
    /\ args' = [args EXCEPT !.parallel = TRUE]
    /\ mainpc' = "check"
    /\ input_level' = RANK_ABBREVIATIONS[args.in_level]
    /\ levels' = [i \in 1..Len(args.out_level) |-> RANK_ABBREVIATIONS[args.out_level[i]]]
    /\ queue' = <<>>
    /\ th' = [t \in Threads |-> Idle]
    /\ lock' = NoThread
    /\ success_count' = 0
    /\ failure_count' = 0
    /\ sink' = <<>>
    /\ network_used' = FALSE
    /\ prior' = [present |-> TRUE, exit |-> mainpc = "exit",
                 rows |-> BagOf([i \in 1..Len(sink) |-> sink[i].line]),
                 success |-> success_count, failure |-> failure_count]
    /\ UNCHANGED <<plant_names, service>>

Next ==
    \/ Validate
    \/ Dispatch
    \/ \E t \in Threads : TakeTask(t)
    \/ \E t \in Threads : FtRequest(t)
    \/ \E t \in Threads : FtBackoff(t)
    \/ \E t \in Threads : FtSleep(t)
    \/ \E t \in Threads : FcRequest(t)
    \/ \E t \in Threads : FcBackoff(t)
    \/ \E t \in Threads : FcPageSleep(t)
    \/ \E t \in Threads : FcSleep(t)
    \/ \E t \in Threads : Acquire(t)
    \/ \E t \in Threads : CountLoad(t)
    \/ \E t \in Threads : CountStore(t)
    \/ \E t \in Threads : WriteRow(t)
    \/ \E t \in Threads : Release(t)
    \/ SeqSleep
    \/ Finish
    \/ InvokePooled

(* --------------------------- specifications --------------------------- *)

AbbrevOf(r) == CHOOSE a \in DOMAIN RANK_ABBREVIATIONS : RANK_ABBREVIATIONS[a] = r

Abbrevs == DOMAIN RANK_ABBREVIATIONS

\* The lists of length 1..n over a set.
ListsUpTo(S, n) == UNION {[1..k -> S] : k \in 1..n}

\* The command lines of the pipeline runs: every rank against itself alone,
\* and family-level input with output ranks above it, below it and both.
PipelineArgs ==
    {[in_level |-> a, out_level |-> <<a>>, parallel |-> FALSE] : a \in Abbrevs}
    \cup {[in_level |-> "f", out_level |-> l, parallel |-> FALSE] :
            l \in {<<"g", "s">>, <<"k", "o">>, <<"o", "f", "g">>}}

\* Every input rank against every output list of up to MaxLevels ranks.
BroadArgs ==
    {[in_level |-> a, out_level |-> l, parallel |-> FALSE] :
        a \in Abbrevs, l \in ListsUpTo(Abbrevs, MaxLevels)}

\* Lists of names on the stable service, under the pipeline's command lines.
InitPipeline ==
    \E a \in PipelineArgs, names \in ListsUpTo(Names, MaxNames) :
        Started(a, names, "stable", NoPrior)

\* One name on the faulty service, under the pipeline's command lines.
InitFaulty ==
    \E a \in PipelineArgs, names \in ListsUpTo(Names, 1) :
        Started(a, names, "faulty", NoPrior)

\* One name on the stable service, under every command line.
InitBroad ==
    \E a \in BroadArgs, names \in ListsUpTo(Names, 1) :
        Started(a, names, "stable", NoPrior)

Init == InitPipeline \/ InitFaulty \/ InitBroad

Spec == Init /\ [][Next]_vars

\* The steps of one thread, and those of main outside the tasks.
ThreadStep(t) ==
    \/ TakeTask(t) \/ FtRequest(t) \/ FtBackoff(t) \/ FtSleep(t)
    \/ FcRequest(t) \/ FcBackoff(t) \/ FcPageSleep(t) \/ FcSleep(t)
    \/ Acquire(t) \/ CountLoad(t) \/ CountStore(t) \/ WriteRow(t) \/ Release(t)

MainStep == Validate \/ Dispatch \/ SeqSleep \/ Finish

\* Fair scheduling: a thread that can take a step, and keeps being able to,
\* takes one; every request is answered (requests.get has a timeout) and every
\* pause ends.  Whether the command is run again is left open.
Fairness ==
    /\ WF_vars(MainStep)
    /\ \A t \in Threads : WF_vars(ThreadStep(t))

\* The runs whose end is checked: one name under an expanding command line on
\* the faulty service, which may also answer every request as the stable one
\* does, and lists of names under a command line without expansion.
InitLive ==
    \/ \E names \in ListsUpTo({"Rosaceae"}, 1) :
          Started([in_level |-> "f", out_level |-> <<"g", "s">>, parallel |-> FALSE],
                  names, "faulty", NoPrior)
    \/ \E names \in ListsUpTo(Names, MaxNames) :
          Started([in_level |-> "f", out_level |-> <<"k", "o">>, parallel |-> FALSE],
                  names, "stable", NoPrior)

FairSpec == InitLive /\ [][Next]_vars /\ Fairness

(* ------------------------------- claims ------------------------------- *)

\* Where a thread is inside "with lock".
LockedPcs == {"count_load", "count_store", "write"}

\* Where a thread is at a network request or in a pause.
BlockingPcs ==
    {"ft_request", "ft_backoff", "ft_sleep", "fc_request", "fc_backoff",
     "fc_pagesleep", "fc_sleep", "seq_sleep"}

\* The lines of the output file, without their tasks.
Lines == [i \in 1..Len(sink) |-> sink[i].line]

\* C1: in pooled mode the rows of one name form one contiguous batch of the
\* output (no row of another name lies between two rows of the same name), and
\* at most one thread is inside the counter-update / row-append section.
C1_ContiguousBatches ==
    args.parallel =>
        /\ \A i, j, k \in DOMAIN sink :
               (i < j /\ j < k /\ sink[i].task = sink[k].task) => sink[j].task = sink[i].task
        /\ Cardinality({t \in Threads : th[t].pc \in LockedPcs}) <= 1

\* A worker is between the two rows of its name while another worker, done
\* with another name, waits for the lock.
C1_Witness ==
    /\ args.parallel
    /\ \E t, u \in Workers :
        /\ t # u
        /\ th[t].pc = "write" /\ th[t].wrote = 1 /\ Len(th[t].results) = 2
        /\ th[u].pc = "lock_wait" /\ th[u].task # th[t].task

\* C2: on the stable service the pooled invocation ends with the same multiset
\* of output rows and the same success and failure counts as the sequential
\* invocation on the same names and command line.
C2_PooledEqualsSequential ==
    (service = "stable" /\ args.parallel /\ prior.present /\ mainpc = "done") =>
        /\ BagOf(Lines) = prior.rows
        /\ success_count = prior.success
        /\ failure_count = prior.failure

\* A pooled run of several names has ended with successes, failures and its
\* rows in another order than the names' (the sequential) order.
C2_Witness ==
    /\ service = "stable" /\ args.parallel /\ prior.present /\ mainpc = "done"
    /\ Len(plant_names) >= 2 /\ success_count >= 1 /\ failure_count >= 1
    /\ \E i, j \in DOMAIN sink : i < j /\ sink[i].task > sink[j].task

\* C3: a thread that holds the lock is inside the locked section, has its
\* resolution and its expansion behind it (a taxonomy, no frame left to
\* expand, no call in progress), and is at no request and in no pause.
C3_LockNotHeldAcrossIO ==
    \A t \in Threads :
        lock = t =>
            /\ th[t].pc \in LockedPcs
            /\ th[t].pc \notin BlockingPcs
            /\ DOMAIN th[t].taxonomy # {}
            /\ th[t].stack = <<>>
            /\ th[t].trace = <<>>

\* A worker holds the lock after an expansion that listed children, while
\* another worker is at a request or in a pause.
C3_Witness ==
    \E t, u \in Workers :
        /\ lock = t /\ th[t].calls # <<>>
        /\ th[u].pc \in BlockingPcs

\* The requests of a trace, and those of them that failed.
NRequests(trace) == Cardinality({i \in DOMAIN trace : trace[i].ev = "request"})

NFailed(trace) ==
    Cardinality({i \in DOMAIN trace :
                    trace[i].ev = "request" /\ trace[i].what \in {"ratelimit", "failure"}})

\* A thread whose process_plant has returned for a name that did not resolve.
Unresolved(s) ==
    /\ s.pc \in {"lock_wait"} \cup LockedPcs
    /\ s.taxonomy["key"] = None

\* The rows of the output file that belong to a task.
RowsOf(task) == {i \in DOMAIN sink : sink[i].task = task}

\* C4: a name that did not resolve yields exactly one row, with the name in the
\* input-rank field and the empty string in every other requested field, after
\* no children-listing call; that one row is what reaches the output; and its
\* task adds exactly 1 to the failure count and nothing to the success count.
C4_UnresolvedName ==
    /\ [](\A t \in Threads :
            Unresolved(th[t]) =>
                /\ Len(th[t].results) = 1
                /\ DOMAIN th[t].results[1] = Range(levels) \cup {input_level}
                /\ th[t].results[1][input_level] = th[t].name
                /\ \A l \in Range(levels) \ {input_level} : th[t].results[1][l] = ""
                /\ th[t].calls = <<>>
                /\ (th[t].pc = "write" /\ th[t].wrote = Len(th[t].results)) =>
                       /\ Cardinality(RowsOf(th[t].task)) = 1
                       /\ \A i \in RowsOf(th[t].task) : sink[i].data = th[t].results[1])
    /\ [][\A t \in Threads :
            Unresolved(th[t]) =>
                IF th[t].pc = "count_store" /\ th'[t].pc = "write"
                THEN failure_count' = failure_count + 1 /\ success_count' = success_count
                ELSE th'[t] # th[t] =>
                        failure_count' = failure_count /\ success_count' = success_count]_vars

\* The row of an unresolved name has been written, under a command line with
\* several output ranks, after another name was counted a success.
C4_Witness ==
    \E t \in Threads :
        /\ Unresolved(th[t])
        /\ th[t].pc = "write" /\ th[t].wrote = 1
        /\ Len(levels) >= 2
        /\ failure_count = 1 /\ success_count = 1

\* Where a thread has a task that has not been counted yet.
UncountedPcs ==
    {"ft_request", "ft_backoff", "ft_sleep", "fc_request", "fc_backoff", "fc_pagesleep",
     "fc_sleep", "lock_wait", "count_load", "count_store"}

\* C5: the two counters together count the names taken so far, less those whose
\* task has not yet reached its count; the step that counts a task adds exactly
\* 1 to exactly one counter, the failure count if and only if the name did not
\* resolve; and within an invocation no step lowers a counter.
C5_OneCountPerName ==
    /\ [](mainpc \in {"run", "done"} =>
            success_count + failure_count =
                Len(plant_names) - Len(queue)
                - Cardinality({t \in Threads : th[t].pc \in UncountedPcs}))
    /\ [][/\ \A t \in Threads :
               (th[t].pc = "count_store" /\ th'[t].pc = "write") =>
                   IF th[t].taxonomy["key"] = None
                   THEN failure_count' = failure_count + 1 /\ success_count' = success_count
                   ELSE success_count' = success_count + 1 /\ failure_count' = failure_count
          /\ mainpc' # "check" =>
               success_count' >= success_count /\ failure_count' >= failure_count]_vars

\* A resolved name whose last children enumeration gave up after RETRY_LIMIT
\* failed requests has been counted, as a success.
C5_Witness ==
    \E t \in Threads :
        /\ th[t].pc = "write" /\ th[t].success
        /\ th[t].last.fn = "fetch_children"
        /\ NFailed(th[t].last.trace) = RETRY_LIMIT
        /\ success_count = 1 /\ failure_count = 0

\* The output ranks of the command line, before validation.
ArgLevels == [i \in 1..Len(args.out_level) |-> RANK_ABBREVIATIONS[args.out_level[i]]]

\* No task has started, no request was issued and no row was written.
NothingDone ==
    /\ ~network_used
    /\ sink = <<>>
    /\ queue = <<>>
    /\ \A t \in Threads : th[t].pc = "idle"

\* C6: while validation is still to come nothing has been done; a command line
\* whose output ranks are exactly the input rank never gets past validation;
\* and an aborted run has issued no request, started no task, written no row.
C6_SoleRankConflictAborts ==
    /\ mainpc = "check" => NothingDone
    /\ args.out_level = <<args.in_level>> => mainpc \in {"check", "exit"}
    /\ mainpc = "exit" => NothingDone

\* Species against species alone has been aborted, in the pooled invocation
\* as in the sequential one before it.
C6_Witness ==
    /\ mainpc = "exit"
    /\ args.in_level = "s" /\ args.out_level = <<"s">>
    /\ args.parallel /\ prior.exit

\* A list without one of its positions.
RemoveAt(s, i) == SubSeq(s, 1, i - 1) \o SubSeq(s, i + 1, Len(s))

NoDuplicates(s) == \A i, j \in DOMAIN s : s[i] = s[j] => i = j

\* C7: after validation of two or more output ranks that hold the input rank,
\* the run has not aborted and the list is the given one less one entry, which
\* is the input rank, the others in their order (so on a list that names each
\* rank once the input rank is gone and every other rank is kept); a list
\* without the input rank is left as it was.
C7_ConflictingRankRemoved ==
    mainpc # "check" =>
        /\ (Len(ArgLevels) >= 2 /\ input_level \in Range(ArgLevels)) =>
              /\ mainpc # "exit"
              /\ \E i \in DOMAIN ArgLevels :
                    ArgLevels[i] = input_level /\ levels = RemoveAt(ArgLevels, i)
              /\ NoDuplicates(ArgLevels) =>
                    /\ input_level \notin Range(levels)
                    /\ Range(levels) = Range(ArgLevels) \ {input_level}
        /\ input_level \notin Range(ArgLevels) => (levels = ArgLevels /\ mainpc # "exit")

\* Validation has removed the input rank from behind another rank of the list.
C7_Witness ==
    /\ mainpc = "dispatch"
    /\ Len(ArgLevels) >= 2
    /\ ArgLevels[1] # input_level /\ ArgLevels[Len(ArgLevels)] = input_level
    /\ levels = SubSeq(ArgLevels, 1, Len(ArgLevels) - 1)

\* Is entry e of a trace a request with this outcome?
IsRequest(e, what) == e.ev = "request" /\ e.what = what

\* C8: a fetch_taxonomy call in progress has seen no no-match response; a call
\* that returned saw one at most as its last event, whatever came before it, and
\* then returned the empty taxonomy (key None, 'N/A' in every field).
C8_NoMatchNotRetried ==
    \A t \in Threads :
        /\ \A i \in DOMAIN th[t].trace : ~IsRequest(th[t].trace[i], "none")
        /\ th[t].last.fn = "fetch_taxonomy" =>
              \A i \in DOMAIN th[t].last.trace :
                  IsRequest(th[t].last.trace[i], "none") =>
                      /\ i = Len(th[t].last.trace)
                      /\ th[t].last.taxonomy["key"] = None
                      /\ th[t].last.taxonomy["name"] = th[t].name
                      /\ \A r \in Ranks \cup {"rank"} : th[t].last.taxonomy[r] = "N/A"

\* fetch_taxonomy has returned on a no-match that came after RETRY_LIMIT - 1
\* failed requests.
C8_Witness ==
    \E t \in Threads :
        /\ th[t].last.fn = "fetch_taxonomy"
        /\ NFailed(th[t].last.trace) = RETRY_LIMIT - 1
        /\ IsRequest(th[t].last.trace[Len(th[t].last.trace)], "none")

FtPcs == {"ft_request", "ft_backoff", "ft_sleep"}

\* C9: a fetch_taxonomy call issues at most RETRY_LIMIT requests (it is at no
\* further request once it has made them) and has seen no match while it is in
\* progress; when it has returned, the run goes on in process_plant; after
\* RETRY_LIMIT failed requests it returned the empty taxonomy; and a match is
\* the last event of its trace and what it returned is that match's lineage.
C9_BoundedRetries ==
    \A t \in Threads :
        /\ th[t].pc \in FtPcs =>
              /\ NRequests(th[t].trace) <= RETRY_LIMIT
              /\ th[t].pc = "ft_request" => NRequests(th[t].trace) < RETRY_LIMIT
              /\ \A i \in DOMAIN th[t].trace : ~IsRequest(th[t].trace[i], "match")
        /\ th[t].last.fn = "fetch_taxonomy" =>
              /\ mainpc = "run" /\ th[t].pc \in {"fc_request", "lock_wait"} \cup LockedPcs
              /\ NRequests(th[t].last.trace) <= RETRY_LIMIT
              /\ NFailed(th[t].last.trace) = RETRY_LIMIT =>
                    /\ th[t].last.taxonomy["key"] = None
                    /\ \A r \in Ranks \cup {"rank"} : th[t].last.taxonomy[r] = "N/A"
              /\ \A i \in DOMAIN th[t].last.trace :
                    IsRequest(th[t].last.trace[i], "match") =>
                        /\ i = Len(th[t].last.trace)
                        /\ th[t].last.taxonomy["key"] =
                               Get(th[t].last.trace[i].body, "usageKey", None)
                        /\ \A r \in Ranks \cup {"rank"} :
                               th[t].last.taxonomy[r] = Get(th[t].last.trace[i].body, r, "N/A")

\* fetch_taxonomy has returned the empty taxonomy after RETRY_LIMIT failed
\* requests, rate-limit responses and other failures among them.
C9_Witness ==
    \E t \in Threads :
        /\ th[t].last.fn = "fetch_taxonomy"
        /\ NFailed(th[t].last.trace) = RETRY_LIMIT
        /\ \E i, j \in DOMAIN th[t].last.trace :
              /\ IsRequest(th[t].last.trace[i], "ratelimit")
              /\ IsRequest(th[t].last.trace[j], "failure")
        /\ th[t].last.taxonomy["key"] = None

\* A thread whose process_plant has returned for a resolved name, under output
\* ranks none of which is below the input rank.
ResolvedNoLower(s) ==
    /\ s.pc \in {"lock_wait"} \cup LockedPcs
    /\ s.taxonomy["key"] # None
    /\ \A l \in Range(levels) : RankIndex(l) <= RankIndex(input_level)

\* What C10 says of such a thread, but for the input-rank field: no children
\* listing was called, there is one row, and its field for every requested rank
\* is the lineage's value of that rank.
OneRowFromLineage(s) ==
    /\ s.calls = <<>>
    /\ Len(s.results) = 1
    /\ \A l \in Range(levels) : s.results[1][l] = s.taxonomy[l]

\* C10: a resolved name with no requested output rank below the input rank
\* gets, without any children-listing call, exactly one row, whose field for
\* every requested rank is the lineage's value and whose input-rank field is
\* the queried name.
C10_NoLowerRanksOneRow ==
    \A t \in Threads :
        ResolvedNoLower(th[t]) =>
            /\ OneRowFromLineage(th[t])
            /\ th[t].results[1][input_level] = th[t].name

\* What does hold: C10's row whenever the input rank is not among the output
\* ranks that validation left, and without its last clause otherwise.
C10_UnlessInputRankRequested ==
    \A t \in Threads :
        ResolvedNoLower(th[t]) =>
            /\ OneRowFromLineage(th[t])
            /\ input_level \notin Range(levels) =>
                   th[t].results[1][input_level] = th[t].name

\* Where a fetch_children call can return from.
FcPcs == {"fc_request", "fc_backoff", "fc_pagesleep", "fc_sleep"}

\* Does this step of thread t return from a fetch_children call?
FcReturns(t) ==
    th[t].pc \in FcPcs /\ th'[t] # th[t] /\ th'[t].last.fn = "fetch_children"

\* C11: when a fetch_children call of the expansion returns no children, the
\* step adds exactly one row, the row accumulated for the current taxon, which
\* has no field for the listed rank or any rank below it; and if the expansion
\* goes on to another children listing, it is for a taxon and row that were
\* already pending on another branch, never for the branch that ended.
C11_EmptyBranchEmitsOneRow ==
    [][\A t \in Threads :
         (FcReturns(t) /\ th'[t].last.children = <<>>) =>
             /\ th'[t].results = Append(th[t].results, th[t].cur.data)
             /\ \A r \in Ranks :
                   RankIndex(r) >= RankIndex(th'[t].last.rank) => r \notin DOMAIN th[t].cur.data
             /\ th'[t].pc \in {"fc_request", "lock_wait"}
             /\ th'[t].pc = "fc_request" =>
                   /\ \E i \in DOMAIN th[t].stack :
                         /\ th[t].stack[i].key = th'[t].cur.key
                         /\ th[t].stack[i].data = th'[t].cur.data
                   /\ th'[t].cur.data # th[t].cur.data
                   /\ th'[t].calls = Append(th[t].calls,
                                             <<th'[t].cur.key, WantedRank(th'[t])>>)
             /\ th'[t].pc = "lock_wait" => th'[t].calls = th[t].calls]_vars

\* The species listing of the first genus came back empty, its branch ended in
\* a row without a species, and the expansion is at the listing of the next genus.
C11_Witness ==
    \E t \in Threads :
        /\ th[t].last.fn = "fetch_children" /\ th[t].last.children = <<>>
        /\ th[t].last.rank = "species"
        /\ th[t].pc = "fc_request"
        /\ Len(th[t].results) = 1
        /\ DOMAIN th[t].results[1] = {"family", "genus"}

\* A thread whose process_plant has returned for a resolved name that had
\* requested ranks below the input rank.
Expanded(s) ==
    /\ s.pc \in {"lock_wait"} \cup LockedPcs
    /\ s.taxonomy["key"] # None
    /\ s.lower # <<>>

\* The row the expansion of a thread's name starts from.
SeedRow(s) ==
    CopyHigher([l \in {input_level} |-> s.name], s.taxonomy,
               SelectSeq(levels, LAMBDA l : RankIndex(l) <= RankIndex(input_level)))

\* C12: an expansion lists children only at requested lower ranks, of each
\* taxon at most once per rank; every row keeps the fields the expansion
\* started from and adds only requested lower ranks; on the stable service the
\* rows are, in order, one per descent path of the children tree (each with its
\* path's names, no two rows alike); and Rosaceae at family rank with output
\* rank genus gives exactly two rows, family "Rosaceae" and two distinct genera.
C12_OneRowPerDescentPath ==
    \A t \in Threads :
        Expanded(th[t]) =>
            /\ \A i \in DOMAIN th[t].calls : th[t].calls[i][2] \in Range(th[t].lower)
            /\ NoDuplicates(th[t].calls)
            /\ \A i \in DOMAIN th[t].results :
                  LET row == th[t].results[i]
                  IN  /\ DOMAIN SeedRow(th[t]) \subseteq DOMAIN row
                      /\ DOMAIN row \subseteq DOMAIN SeedRow(th[t]) \cup Range(th[t].lower)
                      /\ \A l \in DOMAIN SeedRow(th[t]) : row[l] = SeedRow(th[t])[l]
            /\ service = "stable" =>
                  /\ th[t].results =
                         fetch_lower_levels(th[t].taxonomy["key"], SeedRow(th[t]),
                                            RankIndex(input_level), th[t].lower)
                  /\ NoDuplicates(th[t].results)
            /\ (service = "stable" /\ input_level = "family" /\ levels = <<"genus">>
                  /\ th[t].name = "Rosaceae") =>
                  /\ Len(th[t].results) = 2
                  /\ \A i \in 1..2 : /\ DOMAIN th[t].results[i] = {"family", "genus"}
                                     /\ th[t].results[i]["family"] = "Rosaceae"
                  /\ th[t].results[1]["genus"] # th[t].results[2]["genus"]

\* The two genus rows of Rosaceae have both reached the output file, and the
\* only children listing was that of the family.
C12_Witness ==
    \E t \in Threads :
        /\ service = "stable" /\ input_level = "family" /\ levels = <<"genus">>
        /\ Expanded(th[t]) /\ th[t].name = "Rosaceae"
        /\ th[t].pc = "write" /\ th[t].wrote = 2
        /\ th[t].calls = <<<<"6634", "genus">>>>
        /\ Len(sink) = 2 /\ sink[1].data["genus"] = "Rosa L." /\ sink[2].data["genus"] = "Rubus L."

\* A thread whose process_plant has returned.
Processed(s) == s.pc \in {"lock_wait"} \cup LockedPcs

\* Does a row mapping hold the queried name at the input rank and an entry for
\* every output rank?
RowComplete(row, name) ==
    /\ input_level \in DOMAIN row
    /\ row[input_level] = name
    /\ \A l \in Range(levels) : l \in DOMAIN row

\* C13: every row mapping that process_plant returns, and every row mapping
\* handed to the output, has an entry for the input rank equal to the queried
\* name and an entry for every requested output rank.
C13_RowHasEveryField ==
    /\ \A t \in Threads :
          Processed(th[t]) =>
              \A i \in DOMAIN th[t].results : RowComplete(th[t].results[i], th[t].name)
    /\ \A i \in DOMAIN sink : RowComplete(sink[i].data, plant_names[sink[i].task])

\* What does hold of every row mapping: it has the input-rank field, and the
\* written line has one value per column, the empty string where the mapping
\* has no entry.
C13_LineHasEveryColumn ==
    \A i \in DOMAIN sink :
        /\ input_level \in DOMAIN sink[i].data
        /\ Len(sink[i].line) = 1 + Len(levels)
        /\ \A c \in 2..Len(sink[i].line) :
              sink[i].line[c] = Get(sink[i].data, levels[c - 1], "")

\* The successfully fetched pages of a trace, in order.
PagesOf(trace) == SelectSeq(trace, LAMBDA e : IsRequest(e, "page"))

\* The offsets of the pages of the service's listings.
PageOffsets == {0, PageLimit}

\* The unfiltered size of every page, and its entries of every rank, worked
\* out once.
RawCountTable ==
    [k \in KnownKeys, o \in PageOffsets |-> Len(Page(k, o, PageLimit))]

FilteredTable ==
    [k \in KnownKeys, o \in PageOffsets, r \in Ranks |->
        PageResults(Page(k, o, PageLimit), r)]

\* The number of entries the service returned for the page at an offset.
RawCount(key, offset) ==
    IF key \in KnownKeys /\ offset \in PageOffsets THEN RawCountTable[key, offset]
    ELSE Len(Page(key, offset, PageLimit))

\* The entries of a rank in the page at an offset.
FilteredPage(key, offset, rank) ==
    IF key \in KnownKeys /\ offset \in PageOffsets /\ rank \in Ranks
    THEN FilteredTable[key, offset, rank]
    ELSE PageResults(Page(key, offset, PageLimit), rank)

\* Every request of the trace, failed or not, was for the page that follows
\* the pages fetched before it: offset 0, and PageLimit more after each page.
OffsetsAdvance(trace) ==
    \A i \in DOMAIN trace :
        trace[i].ev = "request" =>
            trace[i].n = PageLimit * Len(PagesOf(SubSeq(trace, 1, i - 1)))

\* The rank-filtered entries of the fetched pages of a trace, each page once,
\* in the order of the pages.
FetchedResults(key, rank, trace) ==
    LET pages == PagesOf(trace)
    IN  Flatten([i \in 1..Len(pages) |-> FilteredPage(key, pages[i].n, rank)])

\* C14: in a fetch_children call every request is at the offset that follows
\* the pages fetched so far (a failed request is repeated at the same offset),
\* the results are those of the fetched pages, each page once; a call in
\* progress has so far seen only full pages, by the unfiltered count; and a
\* call that returned before its retries ran out returned on a page of fewer
\* than PageLimit unfiltered entries, the last event of its trace.
C14_PagesUntilShortPage ==
    \A t \in Threads :
        /\ th[t].pc \in FcPcs =>
              /\ OffsetsAdvance(th[t].trace)
              /\ th[t].offset = PageLimit * Len(PagesOf(th[t].trace))
              /\ th[t].children =
                     FetchedResults(th[t].cur.key, WantedRank(th[t]), th[t].trace)
              /\ \A i \in DOMAIN th[t].trace :
                    IsRequest(th[t].trace[i], "page") =>
                        RawCount(th[t].cur.key, th[t].trace[i].n) = PageLimit
        /\ th[t].last.fn = "fetch_children" =>
              /\ OffsetsAdvance(th[t].last.trace)
              /\ th[t].last.children =
                     FetchedResults(th[t].last.key, th[t].last.rank, th[t].last.trace)
              /\ \A i \in DOMAIN th[t].last.trace :
                    IsRequest(th[t].last.trace[i], "page") =>
                        IF i = Len(th[t].last.trace)
                        THEN RawCount(th[t].last.key, th[t].last.trace[i].n) < PageLimit
                        ELSE RawCount(th[t].last.key, th[t].last.trace[i].n) = PageLimit
              /\ NFailed(th[t].last.trace) < RETRY_LIMIT =>
                    IsRequest(th[t].last.trace[Len(th[t].last.trace)], "page")

\* The genus listing of Rosaceae has returned both genera: the first page,
\* full but with one genus in it, then the second page, which had failed once
\* and was requested again.
C14_Witness ==
    \E t \in Threads :
        /\ th[t].last.fn = "fetch_children" /\ th[t].last.key = "6634"
        /\ Len(th[t].last.children) = 2
        /\ Len(PagesOf(th[t].last.trace)) = 2
        /\ \E i \in DOMAIN th[t].last.trace :
              /\ IsRequest(th[t].last.trace[i], "failure")
              /\ th[t].last.trace[i].n = PageLimit

\* Is a rank below r among the requested lower ranks of a thread?
RequestedBelow(s, r) == \E l \in Range(s.lower) : RankIndex(l) > RankIndex(r)

\* fetch_lower_levels has gone on with the list its last fetch_children call
\* returned: with no child, the branch's row was added; with children and a
\* requested rank below, the first child is being listed and the others wait
\* in order, each on a row with its name; otherwise the last rows are the
\* children's, in order.
CallerUses(s) ==
    LET n == Len(s.last.children)
        r == s.last.rank
    IN  IF n = 0 THEN s.results # <<>>
        ELSE IF RequestedBelow(s, r)
        THEN s.pc = "fc_request" =>
               /\ s.cur.key = s.last.children[1]["key"]
               /\ s.cur.data[r] = s.last.children[1]["name"]
               /\ Len(s.stack) >= n - 1
               /\ \A i \in 2..n :
                     /\ s.stack[i - 1].key = s.last.children[i]["key"]
                     /\ s.stack[i - 1].data[r] = s.last.children[i]["name"]
        ELSE /\ Len(s.results) >= n
             /\ \A i \in 1..n :
                   s.results[Len(s.results) - n + i][r] = s.last.children[i]["name"]

\* C15: a fetch_children call that made RETRY_LIMIT failed requests has
\* returned (the task goes on: it is at the next listing or has its rows, and is
\* a success), what it returned is the rank-filtered content of the pages it
\* had fetched, in page order, and fetch_lower_levels has gone on with that list.
C15_PartialResultsOnExhaustion ==
    \A t \in Threads :
        (th[t].last.fn = "fetch_children" /\ NFailed(th[t].last.trace) = RETRY_LIMIT) =>
            /\ th[t].pc \in {"fc_request", "lock_wait"} \cup LockedPcs
            /\ th[t].success
            /\ th[t].last.children =
                   FetchedResults(th[t].last.key, th[t].last.rank, th[t].last.trace)
            /\ CallerUses(th[t])

\* The genus listing of Rosaceae gave up on its second page after its first
\* page was fetched, returned the one genus of the first page, and the
\* expansion is at the species listing of that genus.
C15_Witness ==
    \E t \in Threads :
        /\ th[t].last.fn = "fetch_children" /\ NFailed(th[t].last.trace) = RETRY_LIMIT
        /\ Len(PagesOf(th[t].last.trace)) = 1
        /\ Len(th[t].last.children) = 1 /\ th[t].last.children[1]["name"] = "Rosa L."
        /\ th[t].pc = "fc_request" /\ th[t].cur.key = "8395064"

\* C16: under fair scheduling a run that has passed validation ends, in
\* sequential and in pooled mode and whatever the service answers: every name
\* has been taken and processed, no thread is left in a task, and the summary
\* has success_count + failure_count equal to the number of input names.
C16_RunCompletes ==
    (mainpc = "dispatch") ~>
        (/\ mainpc = "done"
         /\ queue = <<>>
         /\ \A t \in Threads : th[t].pc = "idle"
         /\ lock = NoThread
         /\ success_count + failure_count = Len(plant_names))

\* A pooled run of two names, one of them repeated, has ended with its summary.
C16_Witness ==
    /\ mainpc = "done" /\ args.parallel
    /\ Len(plant_names) = 2 /\ plant_names[1] = plant_names[2]
    /\ success_count + failure_count = 2

\* Is entry e of a trace a failed request?
IsFailed(e) == e.ev = "request" /\ e.what \in {"ratelimit", "failure"}

\* The pauses of a trace are those of the retry policy: a failed request that
\* is not a rate-limit response is followed by the pause of request_delay and
\* then a request; the k-th failed request, when a rate-limit response, by a
\* pause of k * request_delay, then the pause of request_delay, then a request;
\* and there is no pause but these.
PausesFollowPolicy(trace) ==
    /\ \A i \in DOMAIN trace :
          IsFailed(trace[i]) =>
              LET k == NFailed(SubSeq(trace, 1, i))
                  extra == IF trace[i].what = "ratelimit" THEN 1 ELSE 0
              IN  /\ k \in 1..RETRY_LIMIT
                  /\ (extra = 1 /\ i + 1 <= Len(trace)) =>
                        trace[i + 1] = Sleep("backoff", k * request_delay)
                  /\ i + extra + 1 <= Len(trace) =>
                        trace[i + extra + 1] = Sleep("retry", request_delay)
                  /\ i + extra + 2 <= Len(trace) => trace[i + extra + 2].ev = "request"
    /\ \A i \in DOMAIN trace :
          trace[i].ev = "sleep" =>
              /\ i > 1
              /\ trace[i].what = "backoff" => IsRequest(trace[i - 1], "ratelimit")
              /\ trace[i].what = "retry" =>
                    \/ IsRequest(trace[i - 1], "failure")
                    \/ trace[i - 1].ev = "sleep" /\ trace[i - 1].what = "backoff"
              /\ trace[i].what \in {"backoff", "retry"}

\* C17: the pauses of a fetch_taxonomy call follow the retry policy, in a call
\* in progress (which is at a request only with every pause of the last failure
\* behind it) and in a call that has returned (whose last failure, too, got its
\* pauses in full).
C17_ResolvePauses ==
    \A t \in Threads :
        /\ th[t].pc \in FtPcs =>
              /\ PausesFollowPolicy(th[t].trace)
              /\ th[t].attempt = NFailed(th[t].trace) - (IF th[t].pc = "ft_backoff" THEN 1 ELSE 0)
              /\ (th[t].pc = "ft_request" /\ th[t].trace # <<>>) =>
                    th[t].trace[Len(th[t].trace)] = Sleep("retry", request_delay)
              /\ th[t].pc = "ft_backoff" =>
                    IsRequest(th[t].trace[Len(th[t].trace)], "ratelimit")
              /\ th[t].pc = "ft_sleep" =>
                    \/ IsRequest(th[t].trace[Len(th[t].trace)], "failure")
                    \/ th[t].trace[Len(th[t].trace)].what = "backoff"
        /\ th[t].last.fn = "fetch_taxonomy" =>
              /\ PausesFollowPolicy(th[t].last.trace)
              /\ \/ IsRequest(th[t].last.trace[Len(th[t].last.trace)], "match")
                 \/ IsRequest(th[t].last.trace[Len(th[t].last.trace)], "none")
                 \/ th[t].last.trace[Len(th[t].last.trace)] = Sleep("retry", request_delay)

\* A name has resolved at its fourth request: a failure, a second failure, and
\* a rate-limit response with its pause of three times request_delay before them.
C17_Witness ==
    \E t \in Threads :
        /\ th[t].last.fn = "fetch_taxonomy"
        /\ Len(th[t].last.trace) = 8
        /\ IsRequest(th[t].last.trace[1], "failure")
        /\ IsRequest(th[t].last.trace[3], "failure")
        /\ IsRequest(th[t].last.trace[5], "ratelimit")
        /\ th[t].last.trace[6] = Sleep("backoff", 3 * request_delay)
        /\ th[t].last.trace[7] = Sleep("retry", request_delay)
        /\ IsRequest(th[t].last.trace[8], "match")

\* The pause, in all, that follows entry i of a trace before the next request.
RECURSIVE PauseAfter(_, _)
PauseAfter(trace, i) ==
    IF i + 1 > Len(trace) \/ trace[i + 1].ev # "sleep" THEN 0
    ELSE trace[i + 1].n + PauseAfter(trace, i + 1)

\* Is entry i of a trace a fetched page with a request after it?
PageThenRequest(trace, i) ==
    /\ IsRequest(trace[i], "page")
    /\ \E j \in DOMAIN trace : j > i /\ trace[j].ev = "request"

\* C18: in a fetch_children call, between a fetched full page and the request
\* for the next page the pauses add up to exactly one request_delay.
C18_OnePauseBetweenPages ==
    \A t \in Threads :
        /\ \A i \in DOMAIN th[t].trace :
              (th[t].pc \in FcPcs /\ PageThenRequest(th[t].trace, i)) =>
                  PauseAfter(th[t].trace, i) = request_delay
        /\ \A i \in DOMAIN th[t].last.trace :
              (th[t].last.fn = "fetch_children" /\ PageThenRequest(th[t].last.trace, i)) =>
                  PauseAfter(th[t].last.trace, i) = request_delay

\* What the code does: the pause after the page and the pause that ends the
\* loop's iteration, twice request_delay in all.
C18_TwoPausesBetweenPages ==
    \A t \in Threads :
        /\ \A i \in DOMAIN th[t].trace :
              (th[t].pc \in FcPcs /\ PageThenRequest(th[t].trace, i)) =>
                  PauseAfter(th[t].trace, i) = 2 * request_delay
        /\ \A i \in DOMAIN th[t].last.trace :
              (th[t].last.fn = "fetch_children" /\ PageThenRequest(th[t].last.trace, i)) =>
                  PauseAfter(th[t].last.trace, i) = 2 * request_delay

\* The length of every full listing, worked out once, and the number of full
\* pages of a taxon's listing.
ListingLen == [k \in KnownKeys |-> Len(Listing(k))]

FullPages(key) ==
    (IF key \in KnownKeys THEN ListingLen[key] ELSE Len(Listing(key))) \div PageLimit

\* The offsets at which the requests of a trace failed.
FailedOffsets(trace) == {trace[i].n : i \in {j \in DOMAIN trace : IsFailed(trace[j])}}

\* C19: the retry counter of a fetch_children call is the number of failed
\* requests of the whole call, whatever pages they were for; the call is at a
\* further request or pause only with fewer than RETRY_LIMIT failures, and on
\* the RETRY_LIMIT-th it returns without another request; so a call on a
\* listing of P full pages and a short one makes at most P + 1 successful
\* and RETRY_LIMIT failed requests.
C19_CumulativeRetryCounter ==
    \A t \in Threads :
        /\ th[t].pc \in FcPcs =>
              /\ th[t].attempt =
                     NFailed(th[t].trace) - (IF th[t].pc = "fc_backoff" THEN 1 ELSE 0)
              /\ NFailed(th[t].trace) <= RETRY_LIMIT
              /\ th[t].pc # "fc_backoff" => NFailed(th[t].trace) <= RETRY_LIMIT - 1
              /\ Len(PagesOf(th[t].trace)) <= FullPages(th[t].cur.key)
        /\ th[t].last.fn = "fetch_children" =>
              /\ NFailed(th[t].last.trace) <= RETRY_LIMIT
              /\ Len(PagesOf(th[t].last.trace)) <= FullPages(th[t].last.key) + 1
              /\ NRequests(th[t].last.trace) =
                     Len(PagesOf(th[t].last.trace)) + NFailed(th[t].last.trace)
              /\ NFailed(th[t].last.trace) = RETRY_LIMIT =>
                    /\ Len(PagesOf(th[t].last.trace)) <= FullPages(th[t].last.key)
                    /\ \A i \in DOMAIN th[t].last.trace :
                          (IsFailed(th[t].last.trace[i])
                             /\ NFailed(SubSeq(th[t].last.trace, 1, i)) = RETRY_LIMIT) =>
                              \A j \in DOMAIN th[t].last.trace :
                                  j > i => th[t].last.trace[j].what = "backoff"

\* A listing has given up on its fifth failed request, after failures on its
\* first page, that page fetched, and failures on its second page.
C19_Witness ==
    \E t \in Threads :
        /\ th[t].last.fn = "fetch_children"
        /\ NFailed(th[t].last.trace) = RETRY_LIMIT
        /\ FailedOffsets(th[t].last.trace) = {0, PageLimit}
        /\ Len(PagesOf(th[t].last.trace)) = 1

\* C20: once validation has let the run go on, the input rank is not among the
\* output ranks, whatever list was given, and the input-rank field of every
\* row written is the queried name.
C20_InputRankGone ==
    /\ mainpc \in {"dispatch", "run", "done"} => input_level \notin Range(levels)
    /\ \A i \in DOMAIN sink : sink[i].data[input_level] = plant_names[sink[i].task]

\* What does hold after validation: one occurrence of the input rank fewer
\* than the command line gave.
C20_OneOccurrenceRemoved ==
    mainpc \in {"dispatch", "run", "done"} =>
        Cardinality({i \in DOMAIN levels : levels[i] = input_level}) =
            IF input_level \in Range(ArgLevels)
            THEN Cardinality({i \in DOMAIN ArgLevels : ArgLevels[i] = input_level}) - 1
            ELSE 0

====
